---- MODULE Spec2Model ----
(***************************************************************************)
(* Model of the self-update command of Heidelberger/update (src/main.go):  *)
(* Update.Execute asks the release-lookup library for a newer release,    *)
(* selects the asset built for this platform, and Update.downloadBinary   *)
(* downloads it, unpacks the first tar entry into a temporary file beside *)
(* the running executable, makes it executable and renames it over the    *)
(* executable.                                                            *)
(*                                                                         *)
(* Strings are TLA+ strings, built with \o as fmt.Sprintf builds them.    *)
(* File contents are sequences of bytes.  Paths are sequences of          *)
(* components, <<"/", "opt", "app", "update">> for /opt/app/update, and   *)
(* the empty sequence for the empty string "".                            *)
(***************************************************************************)
EXTENDS Integers, Sequences, FiniteSets, TLC

(***************************************************************************)
(* Bounds of the model.                                                    *)
(***************************************************************************)
\* most assets a release carries
MaxAssets == 2
\* most bytes the first archive entry holds
MaxLen == 2

(***************************************************************************)
(* Program constants.                                                      *)
(***************************************************************************)
\* 0o755
binaryChmodValue == 493
\* 0o600, the mode os.CreateTemp gives a new file
CreateTempMode == 384

\* newInfos(AppRepoOwner, AppName, AppVersion) as main calls it
infos == [AppRepoOwner |-> "Heidelberger", AppName |-> "update", AppVersion |-> "v1.0.0"]

\* runtime.GOOS and runtime.GOARCH of the build that is modelled
GOOS == "linux"
GOARCH == "amd64"

(***************************************************************************)
(* The environment: what the release lookup, the network and the file     *)
(* system can hand to the program.                                         *)
(***************************************************************************)
Bytes == {1, 2}
\* every byte string of at most MaxLen bytes
Contents == UNION {[1..n -> Bytes] : n \in 0..MaxLen}

\* the executable on disk before the update; byte 0 occurs in no archive
OrigContent == <<0>>
ExePath == <<"/", "opt", "app", "update">>
\* the empty string, which osext.Executable returns beside its error
EmptyPath == <<>>
\* the working directory of the process, which "." names
Cwd == <<"/", "home", "user">>

TagNames == {"v1.1.0", "v1.2.0"}
AssetNames == {"update-v1.1.0-linux-amd64.tar.gz",
               "update-v1.2.0-linux-amd64.tar.gz",
               "update-v1.2.0-darwin-amd64.tar.gz"}
\* ":bad" has no scheme: url.Parse, and so http.NewRequestWithContext, rejects it
URLs == {"https://cdn.example/asset.tar.gz", ":bad"}
Assets == [Name : AssetNames, BrowserDownloadURL : URLs]
AssetLists == UNION {[1..n -> Assets] : n \in 0..MaxAssets}
Releases == [TagName : TagNames, Assets : AssetLists]

\* A response body: not a gzip stream at all (an HTML error page), or a gzip
\* stream of a tar archive whose entries are given by their contents; hdrOK
\* tells whether the first header block parses.
NotGzip == [gzip |-> FALSE, hdrOK |-> FALSE, entries |-> <<>>]
OtherEntry == <<2, 1>>
TarStreams == {<<>>} \cup {<<b>> : b \in Contents} \cup {<<b, OtherEntry>> : b \in Contents}
Bodies == {NotGzip} \cup [gzip : {TRUE}, hdrOK : BOOLEAN, entries : TarStreams]

NoError == [kind |-> "nil", Message |-> ""]
NoAsset == [Name |-> "", BrowserDownloadURL |-> ""]
NoRelease == [TagName |-> "", Assets |-> <<>>]
NoBody == [gzip |-> FALSE, hdrOK |-> FALSE, entries |-> <<>>]
NoFile == <<>>

VARIABLES
    pc,                 \* where Execute / downloadBinary stands
    hasUpdate, release, \* what grc.Check returned
    found, assetToDownload,
    out,                \* the lines printed to standard output
    requests,           \* the URLs an HTTP GET was issued to
    body,               \* response.Body
    gzipReader,         \* "unset", "nil" or "reader"
    currentExecutable,  \* the path osext.Executable returned
    file,               \* the path of the temporary file (file.Name())
    fs,                 \* the files on disk: path -> content and mode
    derr,               \* what downloadBinary returned
    trace               \* the library calls downloadBinary made, with their outcome

vars == <<pc, hasUpdate, release, found, assetToDownload, out, requests, body,
          gzipReader, currentExecutable, file, fs, derr, trace>>

(***************************************************************************)
(* Pure helpers.                                                           *)
(***************************************************************************)
\* DownloadError{Message: msg}
DownloadError(msg) == [kind |-> "DownloadError", Message |-> msg]

\* DownloadError.Error
Error(e) == "download error: " \o e.Message

\* fmt.Sprintf("%s-%s-%s-%s.tar.gz", info.AppName, version, GOOS, GOARCH)
buildFilename(version, info) ==
    info.AppName \o "-" \o version \o "-" \o GOOS \o "-" \o GOARCH \o ".tar.gz"

\* the three lines Execute prints, and the two downloadBinary prints
UpToDateLine(info) == "Your " \o info.AppName \o " is up-to-date. \\o/"
ErrorLine(e) == "Error: " \o Error(e)
FreshLine(info) == "Now you have a fresh new " \o info.AppName \o " \\o/"
DownloadLine == " -> Download..."
ExtractLine == " -> Extract..."

\* The loop over release.Assets: the index of the asset the loop breaks at, 0
\* when it runs to the end without a match.
RECURSIVE ScanFrom(_, _, _)
ScanFrom(assets, name, i) ==
    IF i > Len(assets) THEN 0
    ELSE IF assets[i].Name = name THEN i
    ELSE ScanFrom(assets, name, i + 1)

\* the loop without its `break`: the last asset of the name wins
RECURSIVE ScanBack(_, _, _)
ScanBack(assets, name, i) ==
    IF i = 0 THEN 0
    ELSE IF assets[i].Name = name THEN i
    ELSE ScanBack(assets, name, i - 1)

SelectLastAsset(assets, name) == ScanBack(assets, name, Len(assets))

SelectAsset(assets, name) == ScanFrom(assets, name, 1)

\* path.Dir
Dir(p) ==
    IF Len(p) = 0 THEN <<".">>
    ELSE IF Len(p) = 1 THEN (IF p = <<"/">> THEN p ELSE <<".">>)
    ELSE SubSeq(p, 1, Len(p) - 1)

\* how the operating system resolves a directory: "." is the working directory
Resolve(d) == IF d = <<".">> THEN Cwd ELSE d

\* url.Parse inside http.NewRequestWithContext
ParseOK(uri) == uri # ":bad"

\* the name os.CreateTemp(dir, pattern) gives: pattern plus a random string
TempName(dir, pattern) == Resolve(dir) \o <<pattern \o "4071853093">>

\* the chmod left out: the file keeps the mode os.CreateTemp gave it
ChmodSkipped(f, mode) == f

\* file.Chmod(mode) on a file's record
Chmod(f, mode) == [f EXCEPT !.mode = mode]

\* one chunk of io.Copy: the next byte of the entry goes to the end of the file
CopyChunk(content, data) == Append(content, data[Len(content) + 1])

\* os.Rename(old, new) on the file system: new names old's file, old is gone
Rename(files, old, new) ==
    [p \in (DOMAIN files \cup {new}) \ {old} |-> IF p = new THEN files[old] ELSE files[p]]

\* the `return` of the `if !hasUpdate` branch left out
AfterCheckFallsThrough(hu) == "select"

\* where Execute goes after grc.Check: the early return when there is no update
AfterCheck(hu) == IF ~hu THEN "done" ELSE "select"

\* the `return` of the `if !found` branch left out
AfterSelectFallsThrough(fnd) == "request"

\* where Execute goes after the loop: the early return when nothing matched
AfterSelect(fnd) == IF ~fnd THEN "done" ELSE "request"

\* the error of tarReader.Next dropped, as that of gzip.NewReader is
AfterExtractIgnored(ok) == "executable"

\* the error of io.Copy dropped
AfterCopyIgnored(ok) == "chmod"

\* where downloadBinary goes after a call that returned err: each
\* `if err != nil { return DownloadError{...} }`
AfterRequest(ok) == IF ok THEN "response" ELSE "returned"
AfterResponse(ok) == IF ok THEN "decompress" ELSE "returned"
AfterExtract(ok) == IF ok THEN "executable" ELSE "returned"
AfterCreateTemp(ok) == IF ok THEN "copy" ELSE "returned"
AfterCopy(ok) == IF ok THEN "chmod" ELSE "returned"
AfterChmod(ok) == IF ok THEN "rename" ELSE "returned"

\* a call returned: note it, and return the wrapped error when `next` says so
Called(stage, ok, msg, next) ==
    /\ trace' = Append(trace, [stage |-> stage, ok |-> ok])
    /\ pc' = next
    /\ derr' = IF next = "returned" /\ ~ok THEN DownloadError(msg) ELSE derr

(***************************************************************************)
(* Construction: main builds infos and calls Execute.                      *)
(***************************************************************************)
Init ==
    /\ pc = "start"
    /\ hasUpdate = FALSE
    /\ release = NoRelease
    /\ found = FALSE
    /\ assetToDownload = NoAsset
    /\ out = <<>>
    /\ requests = <<>>
    /\ body = NoBody
    /\ gzipReader = "unset"
    /\ currentExecutable = EmptyPath
    /\ file = NoFile
    /\ fs = (ExePath :> [content |-> OrigContent, mode |-> binaryChmodValue])
    /\ derr = NoError
    /\ trace = <<>>

(***************************************************************************)
(* Update.Execute, up to the call of downloadBinary.                       *)
(***************************************************************************)
\* grc.Check and the `if !hasUpdate` branch.  The error grc.Check returns is
\* assigned to _ and so is no part of the state.
Check ==
    /\ pc = "start"
    /\ \E hu \in BOOLEAN, rel \in Releases, checkErr \in BOOLEAN :
        /\ hasUpdate' = hu
        /\ release' = rel
        /\ pc' = AfterCheck(hu)
        /\ out' = IF ~hu THEN Append(out, UpToDateLine(infos)) ELSE out
    /\ UNCHANGED <<found, assetToDownload, requests, body, gzipReader,
                   currentExecutable, file, fs, derr, trace>>

\* the loop over release.Assets and the `if !found` branch
Select ==
    /\ pc = "select"
    /\ LET i == SelectAsset(release.Assets, buildFilename(release.TagName, infos))
       IN /\ found' = (i # 0)
          /\ assetToDownload' = IF i # 0 THEN release.Assets[i] ELSE assetToDownload
          /\ pc' = AfterSelect(i # 0)
          /\ out' = IF i = 0 THEN Append(out, UpToDateLine(infos)) ELSE out
    /\ UNCHANGED <<hasUpdate, release, requests, body, gzipReader,
                   currentExecutable, file, fs, derr, trace>>

(***************************************************************************)
(* Update.downloadBinary(assetToDownload.BrowserDownloadURL, info).        *)
(* The deferred Close calls change nothing the model holds.                *)
(***************************************************************************)
\* fmt.Println(" -> Download...") and http.NewRequestWithContext
Request ==
    /\ pc = "request"
    /\ out' = Append(out, DownloadLine)
    /\ LET ok == ParseOK(assetToDownload.BrowserDownloadURL)
       IN Called("Request", ok, "parse: missing protocol scheme", AfterRequest(ok))
    /\ UNCHANGED <<hasUpdate, release, found, assetToDownload, requests, body,
                   gzipReader, currentExecutable, file, fs>>

\* client.Do(request): the one HTTP GET; any response, whatever its status,
\* is taken, and its body is whatever the server sent
Response ==
    /\ pc = "response"
    /\ requests' = Append(requests, assetToDownload.BrowserDownloadURL)
    /\ \/ /\ Called("Response", FALSE, "dial tcp: connection refused", AfterResponse(FALSE))
          /\ body' = body
       \/ /\ \E b \in Bodies : body' = b
          /\ Called("Response", TRUE, "", AfterResponse(TRUE))
    /\ UNCHANGED <<hasUpdate, release, found, assetToDownload, out,
                   gzipReader, currentExecutable, file, fs>>

\* gzipReader, _ := gzip.NewReader(response.Body): nil when the body does not
\* begin with a gzip header; the error is dropped.  Then " -> Extract...".
Decompress ==
    /\ pc = "decompress"
    /\ gzipReader' = IF body.gzip THEN "reader" ELSE "nil"
    /\ out' = Append(out, ExtractLine)
    /\ trace' = Append(trace, [stage |-> "Decompress", ok |-> body.gzip])
    /\ pc' = "extract"
    /\ UNCHANGED <<hasUpdate, release, found, assetToDownload, requests, body,
                   currentExecutable, file, fs, derr>>

\* tar.NewReader(gzipReader) and tarReader.Next().  Reading through a nil
\* *gzip.Reader dereferences nil: the goroutine panics and the process dies.
\* Otherwise Next fails at the end of the archive, on a header that does not
\* parse, or when the stream breaks while the header is read.
Extract ==
    /\ pc = "extract"
    /\ \/ /\ gzipReader = "nil"
          /\ trace' = Append(trace, [stage |-> "Extract", ok |-> FALSE])
          /\ pc' = "panic"
          /\ derr' = derr
       \/ /\ gzipReader = "reader"
          /\ body.entries = <<>>
          /\ Called("Extract", FALSE, "EOF", AfterExtract(FALSE))
       \/ /\ gzipReader = "reader"
          /\ body.entries # <<>>
          /\ ~body.hdrOK
          /\ Called("Extract", FALSE, "archive/tar: invalid tar header", AfterExtract(FALSE))
       \/ /\ gzipReader = "reader"
          /\ body.entries # <<>>
          /\ body.hdrOK
          /\ \E rd \in BOOLEAN : Called("Extract", rd, "unexpected EOF", AfterExtract(rd))
    /\ UNCHANGED <<hasUpdate, release, found, assetToDownload, out, requests, body,
                   gzipReader, currentExecutable, file, fs>>

\* currentExecutable, _ := osext.Executable(): the empty string when it fails;
\* the error is dropped
Executable ==
    /\ pc = "executable"
    /\ \E ok \in BOOLEAN :
        /\ currentExecutable' = IF ok THEN ExePath ELSE EmptyPath
        /\ trace' = Append(trace, [stage |-> "Executable", ok |-> ok])
    /\ pc' = "createTemp"
    /\ UNCHANGED <<hasUpdate, release, found, assetToDownload, out, requests, body,
                   gzipReader, file, fs, derr>>

\* originalPath := path.Dir(currentExecutable); os.CreateTemp(originalPath, info.AppName)
CreateTemp ==
    /\ pc = "createTemp"
    /\ LET name == TempName(Dir(currentExecutable), infos.AppName)
       IN \/ /\ Called("CreateTemp", FALSE, "open: permission denied", AfterCreateTemp(FALSE))
             /\ UNCHANGED <<file, fs>>
          \/ /\ name \notin DOMAIN fs
             /\ file' = name
             /\ fs' = [p \in DOMAIN fs \cup {name} |->
                         IF p = name THEN [content |-> <<>>, mode |-> CreateTempMode]
                         ELSE fs[p]]
             /\ Called("CreateTemp", TRUE, "", AfterCreateTemp(TRUE))
    /\ UNCHANGED <<hasUpdate, release, found, assetToDownload, out, requests, body,
                   gzipReader, currentExecutable>>

\* io.Copy(file, tarReader), a chunk at a time: the read of the entry's next
\* chunk may fail (the stream breaks, the checksum is wrong), the write of it
\* may fail (the disk is full); the copy ends at the end of the first entry.
Copy ==
    /\ pc = "copy"
    /\ LET data == body.entries[1]
           done == Len(fs[file].content) = Len(data)
       IN \/ /\ ~done
             /\ fs' = [fs EXCEPT ![file].content = CopyChunk(@, data)]
             /\ UNCHANGED <<pc, derr, trace>>
          \/ /\ done
             /\ Called("Copy", TRUE, "", AfterCopy(TRUE))
             /\ fs' = fs
          \/ /\ Called("Copy", FALSE, "unexpected EOF", AfterCopy(FALSE))
             /\ fs' = fs
          \/ /\ ~done
             /\ Called("Copy", FALSE, "write: no space left on device", AfterCopy(FALSE))
             /\ fs' = fs
    /\ UNCHANGED <<hasUpdate, release, found, assetToDownload, out, requests, body,
                   gzipReader, currentExecutable, file>>

\* file.Chmod(binaryChmodValue)
ChmodFile ==
    /\ pc = "chmod"
    /\ \/ /\ Called("Chmod", FALSE, "chmod: operation not permitted", AfterChmod(FALSE))
          /\ fs' = fs
       \/ /\ fs' = [fs EXCEPT ![file] = Chmod(@, binaryChmodValue)]
          /\ Called("Chmod", TRUE, "", AfterChmod(TRUE))
    /\ UNCHANGED <<hasUpdate, release, found, assetToDownload, out, requests, body,
                   gzipReader, currentExecutable, file>>

\* os.Rename(file.Name(), currentExecutable) and `return nil`; renaming onto
\* the empty path always fails
RenameFile ==
    /\ pc = "rename"
    /\ \/ /\ Called("Rename", FALSE, "rename: no such file or directory", "returned")
          /\ fs' = fs
       \/ /\ currentExecutable # EmptyPath
          /\ fs' = Rename(fs, file, currentExecutable)
          /\ Called("Rename", TRUE, "", "returned")
    /\ UNCHANGED <<hasUpdate, release, found, assetToDownload, out, requests, body,
                   gzipReader, currentExecutable, file>>

(***************************************************************************)
(* Update.Execute after downloadBinary returned.                           *)
(***************************************************************************)
\* the `if downloadError != nil` print, and the last print
Finish ==
    /\ pc = "returned"
    /\ out' = (IF derr # NoError THEN Append(out, ErrorLine(derr)) ELSE out)
                  \o <<FreshLine(infos)>>
    /\ pc' = "done"
    /\ UNCHANGED <<hasUpdate, release, found, assetToDownload, requests, body,
                   gzipReader, currentExecutable, file, fs, derr, trace>>

Next ==
    \/ Check
    \/ Select
    \/ Request
    \/ Response
    \/ Decompress
    \/ Extract
    \/ Executable
    \/ CreateTemp
    \/ Copy
    \/ ChmodFile
    \/ RenameFile
    \/ Finish

Spec == Init /\ [][Next]_vars

(***************************************************************************)
(* Vocabulary of the properties.                                           *)
(***************************************************************************)
\* the executable as it was before Execute ran
OrigExe == [content |-> OrigContent, mode |-> binaryChmodValue]
\* files other than the executable: the temporary files
TempFiles == DOMAIN fs \ {ExePath}
\* the call `stage` was made / returned no error / returned an error
CalledStage(stage) == \E i \in 1..Len(trace) : trace[i].stage = stage
Succeeded(stage) == \E i \in 1..Len(trace) : trace[i] = [stage |-> stage, ok |-> TRUE]
Failed(stage) == \E i \in 1..Len(trace) : trace[i] = [stage |-> stage, ok |-> FALSE]
\* downloadBinary has returned to Execute
Returned == pc \in {"returned", "done"} /\ CalledStage("Request")
\* the asset name the platform's build of release `tag` carries, written out
ExpectedName(tag) == "update-" \o tag \o "-linux-amd64.tar.gz"
\* the places of release.Assets whose name is the expected one
Matching == {i \in 1..Len(release.Assets) : release.Assets[i].Name = ExpectedName(release.TagName)}
\* what the run looks like when Execute found nothing to do
UpToDateOnly ==
    /\ pc = "done"
    /\ out = <<"Your update is up-to-date. \\o/">>
    /\ requests = <<>>
    /\ trace = <<>>
    /\ fs = (ExePath :> OrigExe)

(***************************************************************************)
(* C1.  The rename onto the executable's path happens only after the copy *)
(* of the archive entry into the temporary file has fully succeeded: a    *)
(* rename is attempted only with a successful Copy before it and with the *)
(* whole entry in the temporary file, the file at the executable's path   *)
(* is either the original or the whole entry, and when the copy failed    *)
(* the executable is unchanged and no rename was attempted.                *)
(***************************************************************************)
C1_RenameOnlyAfterFullCopy ==
    /\ \A i \in 1..Len(trace) :
          trace[i].stage = "Rename" =>
              \E j \in 1..(i - 1) : trace[j] = [stage |-> "Copy", ok |-> TRUE]
    /\ pc = "rename" => fs[file].content = body.entries[1]
    /\ fs[ExePath] # OrigExe =>
          Succeeded("Copy") /\ fs[ExePath].content = body.entries[1]
    /\ Failed("Copy") => fs[ExePath] = OrigExe /\ ~CalledStage("Rename")

\* the copy broke after the first of two bytes: the half-written temporary
\* file exists, and Execute has finished
C1_Witness ==
    /\ pc = "done"
    /\ Failed("Copy")
    /\ body.entries[1] = <<1, 2>>
    /\ fs[file].content = <<1>>

(***************************************************************************)
(* C2.  Every failure of every call downloadBinary makes is wrapped into  *)
(* a DownloadError and returned at once: a call that failed is the last   *)
(* call made, and downloadBinary has returned a DownloadError.             *)
(***************************************************************************)
C2_EveryFailureReturned ==
    \A i \in 1..Len(trace) :
        ~trace[i].ok =>
            /\ i = Len(trace)
            /\ pc \in {"returned", "done"}
            /\ derr.kind = "DownloadError"

(***************************************************************************)
(* C3.  When grc.Check answers hasUpdate = false, whatever release comes  *)
(* with it, Execute prints the up-to-date line and nothing else, issues   *)
(* no HTTP GET, calls nothing of downloadBinary and leaves every file as  *)
(* it was.                                                                 *)
(***************************************************************************)
C3_NoUpdateDoesNothing ==
    (pc # "start" /\ ~hasUpdate) => UpToDateOnly

\* no update, although the release carries the platform's asset
C3_Witness ==
    /\ pc = "done"
    /\ ~hasUpdate
    /\ Matching # {}

(***************************************************************************)
(* C4.  When hasUpdate = true and no asset of the release carries the     *)
(* expected name, Execute ends exactly as in the hasUpdate = false case.  *)
(***************************************************************************)
C4_NoMatchingAssetDoesNothing ==
    (pc \notin {"start", "select"} /\ hasUpdate /\ Matching = {}) => UpToDateOnly

\* an update whose only asset is another platform's build
C4_Witness ==
    /\ pc = "done"
    /\ hasUpdate
    /\ Len(release.Assets) > 0
    /\ Matching = {}

(***************************************************************************)
(* C5.  Given a gzip stream of a tar archive with one well-formed entry   *)
(* of content B, and no call failing, downloadBinary returns nil and the  *)
(* file at the executable's path has content B and mode 0755, with the    *)
(* owner's execute bit set.                                                *)
(***************************************************************************)
C5_ReplacesWithEntry ==
    (/\ Returned
     /\ body.gzip /\ body.hdrOK /\ Len(body.entries) = 1
     /\ \A i \in 1..Len(trace) : trace[i].ok)
    => /\ derr = NoError
       /\ fs[ExePath].content = body.entries[1]
       /\ fs[ExePath].mode = 493
       /\ (fs[ExePath].mode \div 64) % 2 = 1

\* a two-byte entry has replaced the executable
C5_Witness ==
    /\ pc = "done"
    /\ derr = NoError
    /\ body.entries = << <<1, 2>> >>
    /\ fs[ExePath].content = <<1, 2>>

(***************************************************************************)
(* C6.  When the decompressed archive has no entry, or its first header   *)
(* does not parse, downloadBinary returns a DownloadError, creates no     *)
(* temporary file, attempts no rename and leaves the executable as it     *)
(* was.                                                                    *)
(***************************************************************************)
C6_EmptyArchiveRejected ==
    (/\ CalledStage("Extract")
     /\ gzipReader = "reader"
     /\ (body.entries = <<>> \/ ~body.hdrOK))
    => /\ pc \in {"returned", "done"}
       /\ derr.kind = "DownloadError"
       /\ ~CalledStage("CreateTemp")
       /\ ~CalledStage("Rename")
       /\ fs = (ExePath :> OrigExe)

\* an archive without entries was downloaded and Execute has finished
C6_Witness ==
    /\ pc = "done"
    /\ body.gzip
    /\ body.entries = <<>>
    /\ derr = [kind |-> "DownloadError", Message |-> "EOF"]

\* the lines Execute prints, without downloadBinary's two progress lines
IsResultLine(l) == l \notin {" -> Download...", " -> Extract..."}
ResultLines == SelectSeq(out, IsResultLine)


(***************************************************************************)
(* C7.  Every run of Execute ends with one of three outcomes: the         *)
(* up-to-date line alone (no update, or no matching asset); an "Error:"   *)
(* line followed by the success line (downloadBinary returned an error);  *)
(* the success line alone (downloadBinary returned nil).  No run ends     *)
(* without a final message.  The two progress lines of downloadBinary are *)
(* left out of the comparison.                                             *)
(***************************************************************************)
C7_ThreeOutcomes ==
    pc \in {"done", "panic"} =>
        \/ /\ ~found
           /\ ResultLines = <<"Your update is up-to-date. \\o/">>
        \/ /\ found
           /\ derr.kind = "DownloadError"
           /\ ResultLines = <<"Error: download error: " \o derr.Message,
                              "Now you have a fresh new update \\o/">>
        \/ /\ found
           /\ derr = NoError
           /\ Succeeded("Rename")
           /\ ResultLines = <<"Now you have a fresh new update \\o/">>

\* the stages of downloadBinary, in the order the pipeline names them
Pipeline == <<"Request", "Response", "Decompress", "Extract", "CreateTemp",
              "Copy", "Chmod", "Rename">>
IsPipelineStage(c) == \E k \in 1..Len(Pipeline) : Pipeline[k] = c.stage


(***************************************************************************)
(* C8.  downloadBinary is a strict linear pipeline Request, Response,     *)
(* Decompress, Extract-first-entry, Open-temp-file, Copy, Chmod, Rename:  *)
(* the stages run in this order, each at most once, and a stage runs only *)
(* when every stage before it succeeded.                                   *)
(***************************************************************************)
C8_LinearPipeline ==
    LET t == SelectSeq(trace, IsPipelineStage)
    IN \A i \in 1..Len(t) :
          /\ t[i].stage = Pipeline[i]
          /\ i < Len(t) => t[i].ok

\* the least element of a set of places
First(S) == CHOOSE i \in S : \A j \in S : i <= j


(***************************************************************************)
(* C9.  Execute selects at most one asset, the earliest in the release's  *)
(* order whose name equals the expected name exactly, and the selected    *)
(* asset's BrowserDownloadURL is the only URL an HTTP GET goes to, at     *)
(* most once.                                                              *)
(***************************************************************************)
C9_FirstMatchSelected ==
    /\ (pc \notin {"start", "select"} /\ hasUpdate) =>
          /\ found = (Matching # {})
          /\ found => assetToDownload = release.Assets[First(Matching)]
    /\ Len(requests) <= 1
    /\ \A i \in 1..Len(requests) :
          /\ Matching # {}
          /\ requests[i] = release.Assets[First(Matching)].BrowserDownloadURL

\* two assets carry the expected name, with different URLs, and the GET went
\* to the first one's URL
C9_Witness ==
    /\ Cardinality(Matching) = 2
    /\ release.Assets[1].BrowserDownloadURL # release.Assets[2].BrowserDownloadURL
    /\ requests = <<release.Assets[1].BrowserDownloadURL>>

(***************************************************************************)
(* C10.  Execute creates at most one temporary file, in the directory of  *)
(* the running executable; when downloadBinary fails at Copy, Chmod or    *)
(* Rename the temporary file is left behind, and after a successful run   *)
(* no temporary file remains.                                              *)
(***************************************************************************)
C10_OneTempBesideExecutable ==
    /\ Cardinality(TempFiles) <= 1
    /\ \A p \in TempFiles : Dir(p) = Dir(ExePath)
    /\ (Returned /\ (Failed("Copy") \/ Failed("Chmod") \/ Failed("Rename"))) =>
          file \in TempFiles
    /\ (Returned /\ derr = NoError) => TempFiles = {}

====
